---------------------------- MODULE Spec2Model ----------------------------
(***************************************************************************)
(* Resume analyzer (src/main.py): one Streamlit script run is a linear     *)
(* pipeline  key check -> extract -> Analyze -> Improve -> Advise ->       *)
(* display.  Python strings are modelled as sequences of one-character     *)
(* strings, so that str.strip, str.startswith, str.replace and json.loads  *)
(* are computed character by character as the interpreter computes them.   *)
(***************************************************************************)
EXTENDS Integers, Sequences, FiniteSets, TLC

(***************************************************************************)
(* Python str operations used by the script.                               *)
(***************************************************************************)

\* v evaluated once, then F applied to its value (TLC evaluates a LET
\* definition again at every use; a bound variable holds a value)
Let(v, F(_)) == CHOOSE r \in {F(x) : x \in {v}} : TRUE

\* the whitespace characters of the modelled alphabet (str.strip() with no
\* argument, and the whitespace json.loads skips)
Whitespace == {" ", "\n", "\t", "\r"}

\* s.strip(): lstrip, then rstrip
strip(s) ==
    LET lead[i \in 1..Len(s) + 1] ==
            IF i <= Len(s) /\ s[i] \in Whitespace THEN lead[i + 1] ELSE i
        trail[i \in 0..Len(s)] ==
            IF i >= 1 /\ s[i] \in Whitespace THEN trail[i - 1] ELSE i
    IN  SubSeq(s, lead[1], trail[Len(s)])

\* s.startswith(prefix, i-1): prefix occurs in s at position i
MatchAt(s, i, prefix) ==
    /\ i + Len(prefix) - 1 <= Len(s)
    /\ \A k \in 1..Len(prefix) : s[i + k - 1] = prefix[k]

\* s.startswith(prefix)
startswith(s, prefix) == MatchAt(s, 1, prefix)

\* s.endswith(suffix)
endswith(s, suffix) ==
    Len(suffix) <= Len(s) /\ MatchAt(s, Len(s) - Len(suffix) + 1, suffix)

\* s.replace(old, new): every non-overlapping occurrence, left to right.
\* rest[i]: s from position i on with its occurrences replaced
replace(s, old, new) ==
    Let({j \in 1..Len(s) : MatchAt(s, j, old)}, LAMBDA found :
        LET rest[i \in 1..Len(s) + 1] ==
                Let({j \in found : j >= i}, LAMBDA ahead :
                    IF ahead = {} THEN SubSeq(s, i, Len(s))
                    ELSE Let(CHOOSE j \in ahead : \A k \in ahead : j <= k, LAMBDA at :
                             SubSeq(s, i, at - 1) \o new \o rest[at + Len(old)]))
        IN  IF old = <<>> THEN s ELSE rest[1])

\* sep.join(parts)
RECURSIVE join(_, _)
join(sep, parts) ==
    IF parts = <<>> THEN <<>>
    ELSE IF Len(parts) = 1 THEN parts[1]
    ELSE parts[1] \o sep \o join(sep, Tail(parts))

\* s.splitlines() over the line breaks of the modelled alphabet ("\n",
\* "\r", and "\r\n" as one break); no empty last line.  lines[st, i]: the
\* lines from the one that starts at st, scanned up to i
splitlines(s) ==
    LET lines[st \in 1..Len(s) + 2, i \in 1..Len(s) + 2] ==
            IF i > Len(s)
            THEN (IF st > Len(s) THEN <<>> ELSE <<SubSeq(s, st, Len(s))>>)
            ELSE IF s[i] = "\r" /\ i < Len(s) /\ s[i + 1] = "\n"
                 THEN <<SubSeq(s, st, i - 1)>> \o lines[i + 2, i + 2]
            ELSE IF s[i] \in {"\n", "\r"}
                 THEN <<SubSeq(s, st, i - 1)>> \o lines[i + 1, i + 1]
            ELSE lines[st, i + 1]
    IN  lines[1, 1]

(***************************************************************************)
(* json.loads (strict mode, the default).  A decoded value is a record     *)
(* with a type tag t:  obj (v: function from keys to values, a repeated    *)
(* key keeps its last value), arr (v: sequence), str (v: characters),      *)
(* int (v: integer), float (v: the lexeme), true, false, null, const       *)
(* (NaN, Infinity, -Infinity).  A scan result is [ok, v, i]: whether a     *)
(* value was decoded, the value, and the position after it.                *)
(***************************************************************************)

Digits == {"0", "1", "2", "3", "4", "5", "6", "7", "8", "9"}

DigitVal(c) ==
    CASE c = "0" -> 0 [] c = "1" -> 1 [] c = "2" -> 2 [] c = "3" -> 3
      [] c = "4" -> 4 [] c = "5" -> 5 [] c = "6" -> 6 [] c = "7" -> 7
      [] c = "8" -> 8 [] c = "9" -> 9

\* int() of the digits s[a..b]
IntVal(s, a, b) ==
    LET val[i \in a - 1..b] == IF i < a THEN 0 ELSE 10 * val[i - 1] + DigitVal(s[i])
    IN  val[b]

\* json.decoder BACKSLASH: the one-character escapes (BS and FF stand for
\* the backspace and form-feed characters)
Unescape(c) ==
    CASE c = "\"" -> "\"" [] c = "\\" -> "\\" [] c = "/" -> "/"
      [] c = "n" -> "\n" [] c = "r" -> "\r" [] c = "t" -> "\t"
      [] c = "b" -> "BS" [] c = "f" -> "FF"

Escapes == {"\"", "\\", "/", "n", "r", "t", "b", "f"}

JsonFail == [ok |-> FALSE]

JsonOk(val, next) == [ok |-> TRUE, v |-> val, i |-> next]

\* the first position from i on that holds no whitespace
skip_ws(s, i) ==
    LET skip[j \in 1..Len(s) + 1] ==
            IF j <= Len(s) /\ s[j] \in Whitespace THEN skip[j + 1] ELSE j
    IN  skip[i]

\* the end of the run of digits starting at i (i itself when there is none)
skip_digits(s, i) ==
    LET skip[j \in 1..Len(s) + 1] ==
            IF j <= Len(s) /\ s[j] \in Digits THEN skip[j + 1] ELSE j
    IN  skip[i]

\* json.decoder.scanstring from the character after the opening quote:
\* an unterminated string, a control character and an unknown escape fail
\* (the \uXXXX escape is outside the modelled texts).  close[j]: the
\* position of the closing quote, 0 when the string is malformed
scanstring(s, i) ==
    LET close[j \in 1..Len(s) + 1] ==
            IF j > Len(s) THEN 0
            ELSE IF s[j] = "\"" THEN j
            ELSE IF s[j] = "\\"
                 THEN (IF j + 1 <= Len(s) /\ s[j + 1] \in Escapes THEN close[j + 2] ELSE 0)
            ELSE IF s[j] \in {"\n", "\t", "\r"} THEN 0
            ELSE close[j + 1]
        chars[j \in 1..Len(s) + 1] ==
            IF s[j] = "\"" THEN <<>>
            ELSE IF s[j] = "\\" THEN <<Unescape(s[j + 1])>> \o chars[j + 2]
            ELSE <<s[j]>> \o chars[j + 1]
    IN  Let(close[i], LAMBDA end :
            IF end = 0 THEN JsonFail
            ELSE JsonOk([t |-> "str", v |-> chars[i]], end + 1))

\* json.scanner NUMBER_RE: (-?(?:0|[1-9]\d*))(\.\d+)?([eE][-+]?\d+)?
\* d0: after the sign; d1: after the integer part; f1: after the fraction;
\* e1: after the exponent's sign; e2: after the exponent
scan_number(s, i) ==
    Let(IF i <= Len(s) /\ s[i] = "-" THEN i + 1 ELSE i, LAMBDA d0 :
    Let(IF d0 <= Len(s) /\ s[d0] = "0" THEN d0 + 1 ELSE skip_digits(s, d0), LAMBDA d1 :
    Let(IF d1 + 1 <= Len(s) /\ s[d1] = "." /\ s[d1 + 1] \in Digits
        THEN skip_digits(s, d1 + 1) ELSE d1, LAMBDA f1 :
    Let(IF f1 + 1 <= Len(s) /\ s[f1] \in {"e", "E"} /\ s[f1 + 1] \in {"-", "+"}
        THEN f1 + 2 ELSE f1 + 1, LAMBDA e1 :
    Let(IF f1 <= Len(s) /\ s[f1] \in {"e", "E"} /\ e1 <= Len(s) /\ s[e1] \in Digits
        THEN skip_digits(s, e1) ELSE f1, LAMBDA e2 :
        IF d1 = d0 THEN JsonFail
        ELSE IF e2 = d1
             THEN JsonOk([t |-> "int",
                          v |-> (IF d0 > i THEN -1 ELSE 1) * IntVal(s, d0, d1 - 1)], d1)
             ELSE JsonOk([t |-> "float", v |-> SubSeq(s, i, e2 - 1)], e2))))))

TRUE_LIT == <<"t", "r", "u", "e">>
FALSE_LIT == <<"f", "a", "l", "s", "e">>
NULL_LIT == <<"n", "u", "l", "l">>
NAN_LIT == <<"N", "a", "N">>
INF_LIT == <<"I", "n", "f", "i", "n", "i", "t", "y">>
NEG_INF_LIT == <<"-", "I", "n", "f", "i", "n", "i", "t", "y">>

\* json.scanner._scan_once, JSONObject and JSONArray.  scan_members and
\* scan_elements start where a key (an element) must start and decode to
\* the closing bracket; a repeated key keeps the later value
RECURSIVE scan_once(_, _), scan_members(_, _), scan_elements(_, _)
scan_once(s, i) ==
    IF i > Len(s) THEN JsonFail
    ELSE IF s[i] = "\"" THEN scanstring(s, i + 1)
    ELSE IF s[i] = "{"
         THEN Let(skip_ws(s, i + 1), LAMBDA j :
                  IF j <= Len(s) /\ s[j] = "}"
                  THEN JsonOk([t |-> "obj", v |-> <<>>], j + 1)
                  ELSE scan_members(s, j))
    ELSE IF s[i] = "["
         THEN Let(skip_ws(s, i + 1), LAMBDA j :
                  IF j <= Len(s) /\ s[j] = "]"
                  THEN JsonOk([t |-> "arr", v |-> <<>>], j + 1)
                  ELSE scan_elements(s, j))
    ELSE IF MatchAt(s, i, NULL_LIT) THEN JsonOk([t |-> "null"], i + 4)
    ELSE IF MatchAt(s, i, TRUE_LIT) THEN JsonOk([t |-> "true"], i + 4)
    ELSE IF MatchAt(s, i, FALSE_LIT) THEN JsonOk([t |-> "false"], i + 5)
    ELSE Let(scan_number(s, i), LAMBDA n :
             IF n.ok THEN n
             ELSE IF MatchAt(s, i, NAN_LIT)
                  THEN JsonOk([t |-> "const", v |-> NAN_LIT], i + 3)
             ELSE IF MatchAt(s, i, INF_LIT)
                  THEN JsonOk([t |-> "const", v |-> INF_LIT], i + 8)
             ELSE IF MatchAt(s, i, NEG_INF_LIT)
                  THEN JsonOk([t |-> "const", v |-> NEG_INF_LIT], i + 9)
             ELSE JsonFail)

scan_members(s, i) ==
    IF ~(i <= Len(s) /\ s[i] = "\"") THEN JsonFail
    ELSE Let(scanstring(s, i + 1), LAMBDA k :
         IF ~k.ok THEN JsonFail
         ELSE Let(skip_ws(s, k.i), LAMBDA c :
              IF ~(c <= Len(s) /\ s[c] = ":") THEN JsonFail
              ELSE Let(skip_ws(s, c + 1), LAMBDA b :
                   Let(scan_once(s, b), LAMBDA val :
                   IF ~val.ok THEN JsonFail
                   ELSE Let(skip_ws(s, val.i), LAMBDA e :
                        IF e > Len(s) THEN JsonFail
                        ELSE IF s[e] = "}"
                             THEN JsonOk([t |-> "obj", v |-> (k.v.v :> val.v)], e + 1)
                        ELSE IF s[e] = ","
                             THEN Let(skip_ws(s, e + 1), LAMBDA n :
                                  Let(scan_members(s, n), LAMBDA more :
                                      IF ~more.ok THEN JsonFail
                                      ELSE JsonOk([t |-> "obj",
                                                   v |-> more.v.v @@ (k.v.v :> val.v)],
                                                  more.i)))
                        ELSE JsonFail)))))

scan_elements(s, i) ==
    Let(scan_once(s, i), LAMBDA val :
        IF ~val.ok THEN JsonFail
        ELSE Let(skip_ws(s, val.i), LAMBDA e :
             IF e > Len(s) THEN JsonFail
             ELSE IF s[e] = "]" THEN JsonOk([t |-> "arr", v |-> <<val.v>>], e + 1)
             ELSE IF s[e] = ","
                  THEN Let(skip_ws(s, e + 1), LAMBDA n :
                       Let(scan_elements(s, n), LAMBDA more :
                           IF ~more.ok THEN JsonFail
                           ELSE JsonOk([t |-> "arr", v |-> <<val.v>> \o more.v.v], more.i)))
             ELSE JsonFail))

\* json.loads(s): one value, whitespace around it, nothing after it
\* ([ok |-> FALSE] stands for JSONDecodeError)
json_loads(s) ==
    Let(skip_ws(s, 1), LAMBDA b :
    Let(scan_once(s, b), LAMBDA r :
        IF r.ok /\ skip_ws(s, r.i) > Len(s) THEN [ok |-> TRUE, v |-> r.v] ELSE JsonFail))

(***************************************************************************)
(* The script's functions (src/main.py).  UNSET stands for a Python name   *)
(* that has not been assigned in this run.  A call of                      *)
(* model.generate_content is answered by the service with an outcome       *)
(* o = [ok, text]: the response text, or (ok = FALSE) the message of the   *)
(* exception the call (or response.text) raises.                           *)
(***************************************************************************)

UNSET == <<"UNSET">>

PDF_EXT == <<".", "p", "d", "f">>

\* extract_text_from_pdf: "\n".join(page.get_text() for page in doc);
\* fitz.open raises on a file it cannot read
extract_text_from_pdf(pdf_file) ==
    IF pdf_file.corrupt THEN [raised |-> TRUE, ret |-> UNSET]
    ELSE [raised |-> FALSE, ret |-> join(<<"\n">>, pdf_file.parts)]

\* extract_text_from_docx: "\n".join(p.text for p in document.paragraphs)
extract_text_from_docx(docx_file) ==
    IF docx_file.corrupt THEN [raised |-> TRUE, ret |-> UNSET]
    ELSE [raised |-> FALSE, ret |-> join(<<"\n">>, docx_file.parts)]

\* line 123, "not resume_text.strip()": nothing but whitespace was extracted
\* variant: the test without the strip
is_blank_unstripped(text) == text = <<>>

is_blank(text) == strip(text) = <<>>

\* save_docx: one paragraph per line of text.strip(); doc.save may raise
\* (w.ok = FALSE, w.text the message)
save_docx(text, w) ==
    IF w.ok
    THEN [raised |-> FALSE,
          paragraphs |-> Let(strip(text), LAMBDA stripped : splitlines(stripped)),
          msg |-> <<>>]
    ELSE [raised |-> TRUE, paragraphs |-> <<>>, msg |-> w.text]

FENCE == <<"BACKTICK", "BACKTICK", "BACKTICK">>
FENCE_JSON == <<"BACKTICK", "BACKTICK", "BACKTICK", "j", "s", "o", "n">>

\* "Remove any markdown code blocks if present"
strip_fences(feedback) ==
    Let(strip(feedback), LAMBDA raw_output :
        IF startswith(raw_output, FENCE_JSON)
        THEN Let(replace(raw_output, FENCE_JSON, <<>>), LAMBDA unmarked :
             Let(replace(unmarked, FENCE, <<>>), LAMBDA unfenced : strip(unfenced)))
        ELSE IF startswith(raw_output, FENCE)
             THEN Let(replace(raw_output, FENCE, <<>>), LAMBDA unfenced : strip(unfenced))
             ELSE raw_output)

\* the three prompt templates: the template's name and the values the
\* f-string interpolates into it, in order
analyze_prompt(resume) == [template |-> "analyze", args |-> <<resume>>]

\* variant: the feedback interpolated after fence stripping
improve_prompt_unfenced(resume, feedback) ==
    [template |-> "improve", args |-> <<resume, strip_fences(feedback)>>]

improve_prompt(resume, feedback) == [template |-> "improve", args |-> <<resume, feedback>>]

guidance_prompt(improved) == [template |-> "guidance", args |-> <<improved>>]

ANALYZE_ERROR_HEAD == <<"{", "\"", "e", "r", "r", "o", "r", "\"", ":", " ", "\"", "F", "a", "i", "l", "e", "d", " ", "t", "o", " ", "a", "n", "a", "l", "y", "z", "e", " ", "r", "e", "s", "u", "m", "e", ":", " ">>
ANALYZE_ERROR_TAIL == <<"\"", "}">>
IMPROVE_ERROR_HEAD == <<"E", "r", "r", "o", "r", " ", "i", "m", "p", "r", "o", "v", "i", "n", "g", " ", "r", "e", "s", "u", "m", "e", ":", " ">>
GUIDANCE_ERROR_HEAD == <<"E", "r", "r", "o", "r", " ", "g", "e", "n", "e", "r", "a", "t", "i", "n", "g", " ", "j", "o", "b", " ", "g", "u", "i", "d", "a", "n", "c", "e", ":", " ">>
DOWNLOAD_ERROR_HEAD == <<"E", "r", "r", "o", "r", " ", "c", "r", "e", "a", "t", "i", "n", "g", " ", "d", "o", "w", "n", "l", "o", "a", "d", " ", "f", "i", "l", "e", ":", " ">>

\* a function's result: the requests it sent to the generation service,
\* whether an exception left it, and the value it returned
Returned(prompts, val) == [requests |-> prompts, raised |-> FALSE, ret |-> val]

Raised(prompts) == [requests |-> prompts, raised |-> TRUE, ret |-> UNSET]

\* variant: analyze_resume without its try/except
analyze_resume_uncaught(resume, o) ==
    IF o.ok THEN Returned(<<analyze_prompt(resume)>>, strip(o.text))
    ELSE Raised(<<analyze_prompt(resume)>>)

\* variant: analyze_resume sending the request again after a failure
analyze_resume_retrying(resume, o) ==
    IF o.ok THEN Returned(<<analyze_prompt(resume)>>, strip(o.text))
    ELSE Returned(<<analyze_prompt(resume), analyze_prompt(resume)>>,
                  ANALYZE_ERROR_HEAD \o o.text \o ANALYZE_ERROR_TAIL)

\* lines 43-63
analyze_resume(resume, o) ==
    IF o.ok THEN Returned(<<analyze_prompt(resume)>>, strip(o.text))
    ELSE Returned(<<analyze_prompt(resume)>>,
                  ANALYZE_ERROR_HEAD \o o.text \o ANALYZE_ERROR_TAIL)

\* variant: improve_resume returning response.text as it came
improve_resume_unstripped(resume, feedback, o) ==
    IF o.ok THEN Returned(<<improve_prompt(resume, feedback)>>, o.text)
    ELSE Returned(<<improve_prompt(resume, feedback)>>, IMPROVE_ERROR_HEAD \o o.text)

\* lines 65-84
improve_resume(resume, feedback, o) ==
    IF o.ok THEN Returned(<<improve_prompt(resume, feedback)>>, strip(o.text))
    ELSE Returned(<<improve_prompt(resume, feedback)>>, IMPROVE_ERROR_HEAD \o o.text)

\* lines 86-105
get_job_guidance(improved, o) ==
    IF o.ok THEN Returned(<<guidance_prompt(improved)>>, strip(o.text))
    ELSE Returned(<<guidance_prompt(improved)>>, GUIDANCE_ERROR_HEAD \o o.text)

(***************************************************************************)
(* The feedback display.  A rendered element is [kind, label, value].      *)
(***************************************************************************)

Element(kind, label, value) == [kind |-> kind, label |-> label, value |-> value]

QUALITY_SCORE == <<"q", "u", "a", "l", "i", "t", "y", "_", "s", "c", "o", "r", "e">>
SECTIONS_DETECTED == <<"s", "e", "c", "t", "i", "o", "n", "s", "_", "d", "e", "t", "e", "c", "t", "e", "d">>
MISSING_SECTIONS == <<"m", "i", "s", "s", "i", "n", "g", "_", "s", "e", "c", "t", "i", "o", "n", "s">>
WELL_WRITTEN_SECTIONS == <<"w", "e", "l", "l", "_", "w", "r", "i", "t", "t", "e", "n", "_", "s", "e", "c", "t", "i", "o", "n", "s">>
SUGGESTIONS == <<"s", "u", "g", "g", "e", "s", "t", "i", "o", "n", "s">>
NOT_AVAILABLE == [t |-> "str", v |-> <<"N", "/", "A">>]
EMPTY_LIST == [t |-> "arr", v |-> <<>>]

\* dict.get(key, default)
get(d, key, default) == IF key \in DOMAIN d THEN d[key] ELSE default

\* the values len() accepts; len(x) raises TypeError on the others
HasLen(x) == x.t \in {"arr", "str", "obj"}

len(x) == IF x.t = "obj" THEN Cardinality(DOMAIN x.v) ELSE Len(x.v)

\* the body of the try: the elements rendered before it ended, and the
\* exception that ended it ("" when it ran through).  A metric's value is
\* the value its text is formatted from: the score (or 'N/A') in front of
\* "/100", and the two lengths.  .get on a decoded value that is no object
\* raises AttributeError, len() of a value without a length TypeError
feedback_try(feedback) ==
    Let(strip_fences(feedback), LAMBDA raw_output :
    Let(json_loads(raw_output), LAMBDA feedback_data :
        IF ~feedback_data.ok THEN [ui |-> <<>>, exc |-> "JSONDecodeError"]
        ELSE IF feedback_data.v.t # "obj" THEN [ui |-> <<>>, exc |-> "AttributeError"]
        ELSE LET d  == feedback_data.v.v
                 m1 == Element("metric", "Quality Score", get(d, QUALITY_SCORE, NOT_AVAILABLE))
                 sd == get(d, SECTIONS_DETECTED, EMPTY_LIST)
                 ms == get(d, MISSING_SECTIONS, EMPTY_LIST)
             IN  IF ~HasLen(sd) THEN [ui |-> <<m1>>, exc |-> "TypeError"]
                 ELSE IF ~HasLen(ms)
                      THEN [ui |-> <<m1, Element("metric", "Sections Detected", len(sd))>>,
                            exc |-> "TypeError"]
                      ELSE [ui |-> <<m1,
                                     Element("metric", "Sections Detected", len(sd)),
                                     Element("metric", "Missing Sections", len(ms)),
                                     Element("json", "Detailed Analysis", feedback_data.v)>>,
                            exc |-> ""]))

\* except Exception: the warning, the raw feedback and the error details
feedback_except(feedback, exc) ==
    << Element("warning", "Could not parse JSON feedback. Showing raw output:", <<>>),
       Element("text_area", "Raw Feedback", feedback),
       Element("error", "Error details", exc) >>

\* variant: the text area filled with raw_output, the fence-stripped text
feedback_display_shows_stripped(feedback) ==
    Let(feedback_try(feedback), LAMBDA body :
        IF body.exc = "" THEN [raised |-> FALSE, ui |-> body.ui]
        ELSE [raised |-> FALSE,
              ui |-> body.ui \o feedback_except(strip_fences(feedback), body.exc)])

\* lines 159-188: the try and its handler; nothing escapes the handler
feedback_display(feedback) ==
    Let(feedback_try(feedback), LAMBDA body :
        IF body.exc = "" THEN [raised |-> FALSE, ui |-> body.ui]
        ELSE [raised |-> FALSE, ui |-> body.ui \o feedback_except(feedback, body.exc)])

\* the download button: save_docx and the file read inside one try
download_display(improved, w) ==
    Let(save_docx(improved, w), LAMBDA saved :
        IF saved.raised
        THEN <<Element("error", "download", DOWNLOAD_ERROR_HEAD \o saved.msg)>>
        ELSE <<Element("download_button", "Download Improved Resume", saved.paragraphs)>>)

(***************************************************************************)
(* What the environment supplies: the uploaded files, the generation       *)
(* service's answers and the document writer's outcome.                    *)
(***************************************************************************)

\* how many times the session runs the script (Streamlit reruns it on
\* every interaction)
MaxRuns == 2

File(name, parts, corrupt) == [name |-> name, parts |-> parts, corrupt |-> corrupt]

NoFile == File(<<>>, <<>>, FALSE)

UploadedFiles ==
    { File(<<"c", "v", ".", "p", "d", "f">>, <<<<"J", "o", "h", "n", " ", "D", "o", "e">>, <<"E", "x", "p", "e", "r", "i", "e", "n", "c", "e", ":", " ", "5", " ", "y", "e", "a", "r", "s", "\n">>>>, FALSE),
      File(<<"c", "v", ".", "d", "o", "c", "x">>, <<<<"J", "a", "n", "e", " ", "R", "o", "e">>, <<"S", "k", "i", "l", "l", "s", ":", " ", "S", "Q", "L">>>>, FALSE),
      File(<<"s", "c", "a", "n", ".", "p", "d", "f">>, <<<<>>, <<" ", "\n">>>>, FALSE),
      File(<<"e", "m", "p", "t", "y", ".", "d", "o", "c", "x">>, <<>>, FALSE),
      File(<<"b", "a", "d", ".", "p", "d", "f">>, <<>>, TRUE),
      File(<<"b", "a", "d", ".", "d", "o", "c", "x">>, <<>>, TRUE) }

\* JSON object texts the Analyze prompt may be answered with
JSON_FULL ==
    <<"{", "\"", "s", "e", "c", "t", "i", "o", "n", "s", "_", "d", "e", "t", "e", "c", "t", "e", "d", "\"", ":", " ", "[", "\"", "E", "x", "p", "e", "r", "i", "e", "n", "c", "e", "\"", "]", ",", " ", "\"", "m", "i", "s", "s", "i", "n", "g", "_", "s", "e", "c", "t", "i", "o", "n", "s", "\"", ":", " ", "[", "\"", "S", "k", "i", "l", "l", "s", "\"", "]", ",", " ", "\"", "w", "e", "l", "l", "_", "w", "r", "i", "t", "t", "e", "n", "_", "s", "e", "c", "t", "i", "o", "n", "s", "\"", ":", " ", "[", "]", ",", " ", "\"", "q", "u", "a", "l", "i", "t", "y", "_", "s", "c", "o", "r", "e", "\"", ":", " ", "8", "0", ",", " ", "\"", "s", "u", "g", "g", "e", "s", "t", "i", "o", "n", "s", "\"", ":", " ", "[", "\"", "A", "d", "d", " ", "s", "k", "i", "l", "l", "s", "\"", "]", "}">>
JSON_SCORE_HIGH ==
    <<"{", "\"", "s", "e", "c", "t", "i", "o", "n", "s", "_", "d", "e", "t", "e", "c", "t", "e", "d", "\"", ":", " ", "[", "]", ",", " ", "\"", "m", "i", "s", "s", "i", "n", "g", "_", "s", "e", "c", "t", "i", "o", "n", "s", "\"", ":", " ", "[", "]", ",", " ", "\"", "w", "e", "l", "l", "_", "w", "r", "i", "t", "t", "e", "n", "_", "s", "e", "c", "t", "i", "o", "n", "s", "\"", ":", " ", "[", "]", ",", " ", "\"", "q", "u", "a", "l", "i", "t", "y", "_", "s", "c", "o", "r", "e", "\"", ":", " ", "1", "5", "0", ",", " ", "\"", "s", "u", "g", "g", "e", "s", "t", "i", "o", "n", "s", "\"", ":", " ", "[", "]", "}">>
JSON_SCORE_NEGATIVE == <<"{", "\"", "q", "u", "a", "l", "i", "t", "y", "_", "s", "c", "o", "r", "e", "\"", ":", " ", "-", "5", "}">>
JSON_BACKTICKS == <<"{", "\"", "q", "u", "a", "l", "i", "t", "y", "_", "s", "c", "o", "r", "e", "\"", ":", " ", "8", "0", ",", " ", "\"", "s", "u", "g", "g", "e", "s", "t", "i", "o", "n", "s", "\"", ":", " ", "[", "\"", "w", "r", "a", "p", " ", "c", "o", "m", "m", "a", "n", "d", "s", " ", "i", "n", " ", "BACKTICK", "BACKTICK", "BACKTICK", " ", "m", "a", "r", "k", "s", "\"", "]", "}">>
JSON_WORD_JSON == <<"{", "\"", "q", "u", "a", "l", "i", "t", "y", "_", "s", "c", "o", "r", "e", "\"", ":", " ", "7", "0", ",", " ", "\"", "s", "u", "g", "g", "e", "s", "t", "i", "o", "n", "s", "\"", ":", " ", "[", "\"", "m", "e", "n", "t", "i", "o", "n", " ", "j", "s", "o", "n", " ", "s", "k", "i", "l", "l", "s", "\"", "]", "}">>
JSON_FENCE_INSIDE == <<"{", "\"", "q", "u", "a", "l", "i", "t", "y", "_", "s", "c", "o", "r", "e", "\"", ":", " ", "6", "0", ",", " ", "\"", "s", "u", "g", "g", "e", "s", "t", "i", "o", "n", "s", "\"", ":", " ", "[", "\"", "d", "r", "o", "p", " ", "t", "h", "e", " ", "BACKTICK", "BACKTICK", "BACKTICK", "j", "s", "o", "n", " ", "b", "l", "o", "c", "k", "\"", "]", "}">>
JSON_NOT_ARRAYS == <<"{", "\"", "q", "u", "a", "l", "i", "t", "y", "_", "s", "c", "o", "r", "e", "\"", ":", " ", "\"", "h", "i", "g", "h", "\"", ",", " ", "\"", "s", "e", "c", "t", "i", "o", "n", "s", "_", "d", "e", "t", "e", "c", "t", "e", "d", "\"", ":", " ", "\"", "E", "x", "p", "e", "r", "i", "e", "n", "c", "e", "\"", ",", " ", "\"", "m", "i", "s", "s", "i", "n", "g", "_", "s", "e", "c", "t", "i", "o", "n", "s", "\"", ":", " ", "{", "\"", "a", "\"", ":", " ", "1", "}", "}">>
JSON_NO_LEN == <<"{", "\"", "q", "u", "a", "l", "i", "t", "y", "_", "s", "c", "o", "r", "e", "\"", ":", " ", "8", "0", ",", " ", "\"", "s", "e", "c", "t", "i", "o", "n", "s", "_", "d", "e", "t", "e", "c", "t", "e", "d", "\"", ":", " ", "5", "}">>
JSON_NO_LEN_MISSING == <<"{", "\"", "s", "e", "c", "t", "i", "o", "n", "s", "_", "d", "e", "t", "e", "c", "t", "e", "d", "\"", ":", " ", "[", "]", ",", " ", "\"", "m", "i", "s", "s", "i", "n", "g", "_", "s", "e", "c", "t", "i", "o", "n", "s", "\"", ":", " ", "n", "u", "l", "l", "}">>
JSON_EMPTY == <<"{", "}">>

JsonObjects ==
    { JSON_FULL, JSON_SCORE_HIGH, JSON_SCORE_NEGATIVE, JSON_BACKTICKS, JSON_WORD_JSON,
      JSON_FENCE_INSIDE, JSON_NOT_ARRAYS, JSON_NO_LEN, JSON_NO_LEN_MISSING, JSON_EMPTY }

\* the objects the service is taken to wrap in a fenced block
Fenceable == {JSON_FULL, JSON_BACKTICKS, JSON_WORD_JSON, JSON_FENCE_INSIDE, JSON_EMPTY}

\* language annotations of a fenced block: none, json, another one
NO_TAG == <<>>
JSON_TAG == <<"j", "s", "o", "n">>
OTHER_TAG == <<"j", "a", "v", "a", "s", "c", "r", "i", "p", "t">>
FenceTags == {NO_TAG, JSON_TAG, OTHER_TAG}

\* a fenced block around text
Fenced(tag, text) == FENCE \o tag \o <<"\n">> \o text \o <<"\n">> \o FENCE

SORRY == <<"S", "o", "r", "r", "y", ",", " ", "I", " ", "c", "a", "n", "n", "o", "t", " ", "h", "e", "l", "p", ".">>

AnalyzeTexts ==
    JsonObjects
    \cup {Fenced(tag, J) : tag \in FenceTags, J \in Fenceable}
    \cup { SORRY, <<" ", "S", "o", "r", "r", "y", ",", " ", "I", " ", "c", "a", "n", "n", "o", "t", " ", "h", "e", "l", "p", ".", "\n">>, <<>>, <<" ", "\n">>,
           <<"{", "\"", "q", "u", "a", "l", "i", "t", "y", "_", "s", "c", "o", "r", "e", "\"", ":", " ", "8", "0", ",", "}">>, <<"[", "1", ",", " ", "2", "]">>, <<"\"", "o", "k", "\"">>, <<"4", "2">>, <<"n", "u", "l", "l">>,
           <<"\n", "{", "\"", "q", "u", "a", "l", "i", "t", "y", "_", "s", "c", "o", "r", "e", "\"", ":", " ", "8", "0", "}", "\n">>,
           <<"BACKTICK", "BACKTICK", "BACKTICK", "j", "s", "o", "n", "\n", "{", "\"", "q", "u", "a", "l", "i", "t", "y", "_", "s", "c", "o", "r", "e", "\"", ":", " ", "8", "0", "}">> }

ImproveTexts == {<<"J", "o", "h", "n", " ", "D", "o", "e", "\n", "E", "x", "p", "e", "r", "i", "e", "n", "c", "e", ":", " ", "5", " ", "y", "e", "a", "r", "s">>, <<" ", "J", "a", "n", "e", " ", "R", "o", "e", "\n", "\n", "S", "k", "i", "l", "l", "s", ":", " ", "S", "Q", "L", " ", "\n">>, <<>>, <<" ", "\n">>}

GuidanceTexts == {<<"#", "#", " ", "J", "o", "b", " ", "t", "i", "t", "l", "e", "s", "\n", "-", " ", "D", "a", "t", "a", " ", "a", "n", "a", "l", "y", "s", "t">>, <<>>, <<"\n">>}

\* messages of the exceptions a service call raises
ErrorMessages == {<<"t", "i", "m", "e", "o", "u", "t">>, <<"q", "u", "o", "t", "a", " ", "\"", "e", "x", "c", "e", "e", "d", "e", "d", "\"">>, <<>>}

Answers(texts) ==
    {[ok |-> TRUE, text |-> t] : t \in texts}
    \cup {[ok |-> FALSE, text |-> m] : m \in ErrorMessages}

\* the document writer: saved, or an exception with its message
WriterOutcomes == {[ok |-> TRUE, text |-> <<>>], [ok |-> FALSE, text |-> <<"d", "i", "s", "k", " ", "f", "u", "l", "l">>]}

(***************************************************************************)
(* State.                                                                  *)
(***************************************************************************)

VARIABLES
    pc,               \* where the script run is
    runs,             \* script runs started in this session
    api_key,          \* whether GEMINI_API_KEY is set
    resume_text,
    feedback_raw,
    improved_resume,
    job_guidance,
    progress,         \* progress bar: its value, or -1 when there is none
    status_text,      \* the status line
    ui,               \* the elements rendered by this run, in order
    calls             \* this run's requests to the generation service, in order

vars == <<pc, runs, api_key, resume_text, feedback_raw, improved_resume, job_guidance,
          progress, status_text, ui, calls>>

\* one logged request: the stage that sent it, its prompt, the service's
\* answer and the value the stage returned to the script
Call(stage, prompt, o, ret) ==
    [stage |-> stage, prompt |-> prompt, ok |-> o.ok, text |-> o.text, ret |-> ret]

RECURSIVE CallsOf(_, _, _, _)
CallsOf(stage, prompts, o, ret) ==
    IF prompts = <<>> THEN <<>>
    ELSE <<Call(stage, prompts[1], o, ret)>> \o CallsOf(stage, Tail(prompts), o, ret)

FreshRun ==
    /\ pc = "start"
    /\ resume_text = UNSET
    /\ feedback_raw = UNSET
    /\ improved_resume = UNSET
    /\ job_guidance = UNSET
    /\ progress = -1
    /\ status_text = ""
    /\ ui = <<>>
    /\ calls = <<>>

Init ==
    /\ runs = 1
    /\ api_key \in BOOLEAN
    /\ FreshRun

\* lines 14-24: the credential check
KeyCheck ==
    /\ pc = "start"
    /\ IF ~api_key
       THEN /\ ui' = ui \o << Element("error", "Missing GEMINI_API_KEY", <<>>),
                              Element("info", "Streamlit Cloud setup", <<>>),
                              Element("info", "local setup", <<>>) >>
            /\ pc' = "stopped"
       ELSE /\ ui' = ui
            /\ pc' = "ui"
    /\ UNCHANGED <<runs, api_key, resume_text, feedback_raw, improved_resume,
                   job_guidance, progress, status_text, calls>>

SIDEBAR == <<Element("sidebar", "Instructions", <<>>), Element("sidebar", "Setup", <<>>)>>

\* lines 108-133: title, uploader, button, extraction and the empty-text check
Submit ==
    /\ pc = "ui"
    /\ \E run_button \in BOOLEAN, uploaded_file \in UploadedFiles \cup {NoFile} :
       \E extracted \in {IF endswith(uploaded_file.name, PDF_EXT)
                         THEN extract_text_from_pdf(uploaded_file)
                         ELSE extract_text_from_docx(uploaded_file)} :
         LET widgets == << Element("title", "Resume Analyzer & Job Finder", <<>>),
                           Element("file_uploader", "Upload Resume", uploaded_file.name),
                           Element("button", "Analyze", run_button) >>
             processing == <<Element("info", "Processing your resume...", <<>>)>>
         IN  IF ~(run_button /\ uploaded_file # NoFile)
             THEN /\ ui' = ui \o widgets \o SIDEBAR
                  /\ pc' = "end"
                  /\ UNCHANGED <<resume_text, progress, status_text>>
             ELSE IF extracted.raised
             THEN /\ ui' = ui \o widgets \o processing
                  /\ pc' = "crashed"
                  /\ UNCHANGED <<resume_text, progress, status_text>>
             ELSE IF is_blank(extracted.ret)
             THEN /\ ui' = ui \o widgets \o processing
                            \o <<Element("error", "Could not extract text from resume.", <<>>)>>
                  /\ resume_text' = extracted.ret
                  /\ pc' = "stopped"
                  /\ UNCHANGED <<progress, status_text>>
             ELSE /\ ui' = ui \o widgets \o processing
                  /\ resume_text' = extracted.ret
                  /\ progress' = 25
                  /\ status_text' = "Analyzing resume..."
                  /\ pc' = "analyze"
    /\ UNCHANGED <<runs, api_key, feedback_raw, improved_resume, job_guidance, calls>>

\* lines 135-139
Analyze ==
    /\ pc = "analyze"
    /\ \E o \in Answers(AnalyzeTexts) :
         \E r \in {analyze_resume(resume_text, o)} :
             /\ calls' = calls \o CallsOf("analyze", r.requests, o, r.ret)
             /\ IF r.raised
                THEN /\ pc' = "crashed"
                     /\ UNCHANGED <<feedback_raw, progress, status_text>>
                ELSE /\ feedback_raw' = r.ret
                     /\ progress' = 50
                     /\ status_text' = "Improving resume..."
                     /\ pc' = "improve"
    /\ UNCHANGED <<runs, api_key, resume_text, improved_resume, job_guidance, ui>>

\* variant: Improve not waiting for Analyze to return
Improve_unordered ==
    /\ pc \in {"analyze", "improve"}
    /\ \E o \in Answers(ImproveTexts) :
         \E r \in {improve_resume(resume_text, feedback_raw, o)} :
             /\ calls' = calls \o CallsOf("improve", r.requests, o, r.ret)
             /\ improved_resume' = r.ret
             /\ progress' = 75
             /\ status_text' = "Generating job guidance..."
             /\ pc' = "advise"
    /\ UNCHANGED <<runs, api_key, resume_text, feedback_raw, job_guidance, ui>>

\* lines 141-145
Improve ==
    /\ pc = "improve"
    /\ \E o \in Answers(ImproveTexts) :
         \E r \in {improve_resume(resume_text, feedback_raw, o)} :
             /\ calls' = calls \o CallsOf("improve", r.requests, o, r.ret)
             /\ IF r.raised
                THEN /\ pc' = "crashed"
                     /\ UNCHANGED <<improved_resume, progress, status_text>>
                ELSE /\ improved_resume' = r.ret
                     /\ progress' = 75
                     /\ status_text' = "Generating job guidance..."
                     /\ pc' = "advise"
    /\ UNCHANGED <<runs, api_key, resume_text, feedback_raw, job_guidance, ui>>

\* lines 147-154
Advise ==
    /\ pc = "advise"
    /\ \E o \in Answers(GuidanceTexts) :
         \E r \in {get_job_guidance(improved_resume, o)} :
             /\ calls' = calls \o CallsOf("advise", r.requests, o, r.ret)
             /\ IF r.raised
                THEN /\ pc' = "crashed"
                     /\ UNCHANGED <<job_guidance, progress, status_text>>
                ELSE /\ job_guidance' = r.ret
                     /\ progress' = -1
                     /\ status_text' = ""
                     /\ pc' = "display"
    /\ UNCHANGED <<runs, api_key, resume_text, feedback_raw, improved_resume, ui>>

\* lines 156-232: the three result sections and the sidebar
Display ==
    /\ pc = "display"
    /\ \E w \in WriterOutcomes, shown \in {feedback_display(feedback_raw)} :
         LET head == ui \o <<Element("subheader", "Resume Feedback", <<>>)>> \o shown.ui
         IN  IF shown.raised
             THEN /\ ui' = head
                  /\ pc' = "crashed"
             ELSE /\ ui' = head
                         \o << Element("subheader", "Improved Resume", <<>>),
                               Element("text_area", "Improved Resume", improved_resume) >>
                         \o download_display(improved_resume, w)
                         \o << Element("subheader", "Job Search Guidance", <<>>),
                               Element("markdown", "Job Search Guidance", job_guidance) >>
                         \o SIDEBAR
                  /\ pc' = "end"
    /\ UNCHANGED <<runs, api_key, resume_text, feedback_raw, improved_resume,
                   job_guidance, progress, status_text, calls>>

\* the next interaction reruns the script from the top; nothing but the
\* environment survives a run
Rerun ==
    /\ pc \in {"end", "stopped", "crashed"}
    /\ runs < MaxRuns
    /\ runs' = runs + 1
    /\ pc' = "start"
    /\ resume_text' = UNSET
    /\ feedback_raw' = UNSET
    /\ improved_resume' = UNSET
    /\ job_guidance' = UNSET
    /\ progress' = -1
    /\ status_text' = ""
    /\ ui' = <<>>
    /\ calls' = <<>>
    /\ UNCHANGED api_key

Next == KeyCheck \/ Submit \/ Analyze \/ Improve \/ Advise \/ Display \/ Rerun

Spec == Init /\ [][Next]_vars

\* a script run executes to its end: every step of a run is taken; the
\* next interaction (Rerun) is the user's and may never come
FairSpec == Spec /\ WF_vars(KeyCheck \/ Submit \/ Analyze \/ Improve \/ Advise \/ Display)

(***************************************************************************)
(* Properties.                                                             *)
(***************************************************************************)

Has(kind, label) == \E i \in DOMAIN ui : ui[i].kind = kind /\ ui[i].label = label

HasKind(kind) == \E i \in DOMAIN ui : ui[i].kind = kind

\* the script reached its last line after running the pipeline
Ran == pc = "end" /\ resume_text # UNSET

InPipeline == pc \in {"analyze", "improve", "advise", "display"}

Stages == <<"analyze", "improve", "advise">>

WarningShown == Has("warning", "Could not parse JSON feedback. Showing raw output:")

\* the value of the "Raw Feedback" text area is exactly text
RawFeedbackIs(text) ==
    \E i \in DOMAIN ui :
        ui[i].kind = "text_area" /\ ui[i].label = "Raw Feedback" /\ ui[i].value = text

FeedbackRendered ==
    Has("subheader", "Resume Feedback") /\ (HasKind("json") \/ WarningShown)

AllRendered ==
    /\ FeedbackRendered
    /\ Has("text_area", "Improved Resume")
    /\ Has("markdown", "Job Search Guidance")

\* C1: a run that starts the pipeline (non-empty resume text) always reaches
\* the end of the script with the feedback section, the improved resume and
\* the job guidance rendered, whatever the three service calls and the
\* document writer do, and no step of the pipeline ends in an uncaught
\* exception.
C1_RunNeverAborts ==
    /\ \A n \in 1..MaxRuns :
         (pc = "analyze" /\ runs = n) ~> (pc = "end" /\ runs = n /\ AllRendered)
    /\ [][InPipeline => pc' # "crashed"]_vars

\* every call failed and the writer failed, and the run still ended with
\* everything rendered
C1_Witness ==
    /\ Ran /\ AllRendered
    /\ Len(calls) = 3 /\ \A i \in 1..3 : ~calls[i].ok
    /\ Has("error", "download")

\* C2: the requests of a run are issued in the order Analyze, Improve,
\* Advise: a request of Improve is issued only when Analyze's request has
\* been answered and Analyze has returned its value, and a request of Advise
\* only when Improve has returned.
C2_StagesInOrder ==
    [][\A i \in (DOMAIN calls') \ (DOMAIN calls) :
          /\ i <= 3
          /\ calls'[i].stage = Stages[i]
          /\ i = 2 => (Len(calls) = 1 /\ calls[1].stage = "analyze" /\ feedback_raw = calls[1].ret)
          /\ i = 3 => (Len(calls) = 2 /\ calls[2].stage = "improve"
                       /\ improved_resume = calls[2].ret)]_vars

\* Advise has been called after an Analyze that returned its error value
C2_Witness ==
    /\ Len(calls) = 3 /\ calls[3].stage = "advise"
    /\ ~calls[1].ok /\ calls[1].ret = feedback_raw

\* C3: with the credential missing, or with extracted text that is empty or
\* only whitespace, the run reports an error and stops, and no request is
\* ever sent to the generation service in that run.
C3_PreconditionHalts ==
    /\ ~api_key =>
         /\ calls = <<>>
         /\ pc \in {"start", "stopped"}
         /\ pc = "stopped" => Has("error", "Missing GEMINI_API_KEY")
    /\ (resume_text # UNSET /\ strip(resume_text) = <<>>) =>
         /\ calls = <<>>
         /\ pc = "stopped"
         /\ Has("error", "Could not extract text from resume.")

\* whitespace-only text was extracted and the run stopped
C3_Witness ==
    /\ pc = "stopped" /\ api_key
    /\ resume_text # UNSET /\ resume_text # <<>>
    /\ calls = <<>>

\* C4: Improve's prompt carries the original resume text and exactly the
\* value Analyze returned, Advise's prompt exactly the value Improve
\* returned, and Analyze's prompt only the resume text.
C4_ExactValuesForward ==
    \A i \in DOMAIN calls :
        /\ calls[i].stage = "analyze" => calls[i].prompt.args = <<resume_text>>
        /\ calls[i].stage = "improve" =>
             /\ i > 1 /\ calls[i - 1].stage = "analyze"
             /\ calls[i].prompt.args = <<resume_text, calls[i - 1].ret>>
        /\ calls[i].stage = "advise" =>
             /\ i > 1 /\ calls[i - 1].stage = "improve"
             /\ calls[i].prompt.args = <<calls[i - 1].ret>>

\* Improve was given a fenced answer as it was returned, and Advise was
\* given Improve's error placeholder
C4_Witness ==
    /\ Len(calls) = 3
    /\ startswith(calls[1].ret, FENCE) /\ calls[2].prompt.args[2] = calls[1].ret
    /\ ~calls[2].ok /\ startswith(calls[3].prompt.args[1], IMPROVE_ERROR_HEAD)

ErrorHead(stage) ==
    CASE stage = "analyze" -> ANALYZE_ERROR_HEAD
      [] stage = "improve" -> IMPROVE_ERROR_HEAD
      [] stage = "advise" -> GUIDANCE_ERROR_HEAD

NoCrashAfterACall == calls # <<>> => pc # "crashed"

\* C5 as stated: Improve and Advise return a non-empty string for every
\* response and every failure, and never raise.
C5_AlwaysNonEmpty ==
    /\ NoCrashAfterACall
    /\ \A i \in DOMAIN calls :
         calls[i].stage \in {"improve", "advise"} => calls[i].ret # <<>>

\* C5 amended: Improve and Advise never raise; on a failed call they return
\* a non-empty text that ends with the error description, and on success
\* they return the trimmed response text, which is empty exactly when the
\* response holds nothing but whitespace.
C5_NonEmptyUnlessBlankResponse ==
    /\ NoCrashAfterACall
    /\ \A i \in DOMAIN calls :
         calls[i].stage \in {"improve", "advise"} =>
           IF calls[i].ok
           THEN /\ calls[i].ret = strip(calls[i].text)
                /\ calls[i].ret = <<>> <=>
                     \A k \in DOMAIN calls[i].text : calls[i].text[k] \in Whitespace
           ELSE /\ calls[i].ret # <<>>
                /\ calls[i].ret = ErrorHead(calls[i].stage) \o calls[i].text

\* Improve failed and returned its error text; Advise succeeded on a
\* whitespace-only response and returned the empty string
C5_Witness ==
    /\ Len(calls) = 3
    /\ ~calls[2].ok /\ calls[2].ret # <<>>
    /\ calls[3].ok /\ calls[3].text # <<>> /\ calls[3].ret = <<>>

\* C6 as stated: when Analyze's service call raises, the feedback display
\* takes the warning path with the raw text, never the structured path, and
\* the pipeline goes on to Improve and Advise.
C6_ServiceErrorWarns ==
    (Ran /\ ~calls[1].ok) =>
        /\ WarningShown
        /\ RawFeedbackIs(feedback_raw)
        /\ ~HasKind("json") /\ ~HasKind("metric")
        /\ Len(calls) = 3

\* C7 as stated: an Analyze response that is not valid JSON is shown as raw
\* text equal to exactly the returned string, with a warning, and nothing
\* of it is decoded.
C7_RawTextExactlyAsReturned ==
    (Ran /\ calls[1].ok /\ ~json_loads(calls[1].text).ok) =>
        /\ WarningShown
        /\ RawFeedbackIs(calls[1].text)
        /\ ~HasKind("json") /\ ~HasKind("metric")

\* C7 amended: an Analyze response that is not valid JSON after trimming and
\* removal of the fence markers is shown as raw text equal to the returned
\* string with only its surrounding whitespace trimmed (fence markers kept),
\* with a warning, and nothing of it is decoded.
C7_RawTextTrimmed ==
    (Ran /\ calls[1].ok /\ ~json_loads(strip_fences(calls[1].text)).ok) =>
        /\ WarningShown
        /\ RawFeedbackIs(strip(calls[1].text))
        /\ ~HasKind("json") /\ ~HasKind("metric")

\* the response " Sorry, I cannot help.\n" was shown with the warning
C7_Witness ==
    /\ Ran /\ calls[1].ok
    /\ calls[1].text # SORRY /\ strip(calls[1].text) = SORRY
    /\ WarningShown /\ RawFeedbackIs(SORRY)

\* the record shown on the structured path
Shown(record) ==
    \E i \in DOMAIN ui : ui[i].kind = "json" /\ ui[i].value = record

\* C8 as stated: a JSON object wrapped in a fenced block, with no language
\* tag, a json tag or another tag, is decoded to the same record as the
\* plain object.
C8_FenceTransparent ==
    \A tag \in FenceTags, J \in Fenceable :
        (Ran /\ calls[1].ok /\ calls[1].text = Fenced(tag, J)) => Shown(json_loads(J).v)

InRange(d, key, types) == key \in DOMAIN d => d[key].t \in types

IsScore(d) ==
    QUALITY_SCORE \in DOMAIN d =>
        /\ d[QUALITY_SCORE].t = "int"
        /\ d[QUALITY_SCORE].v \in 0..100

\* C9 as stated: what is accepted as a structured result is an object whose
\* quality_score is a number in [0,100] and whose four list fields are
\* arrays (fields that are present), and Analyze never throws.
C9_StructuredIsWellShaped ==
    /\ NoCrashAfterACall
    /\ \A i \in DOMAIN ui :
         ui[i].kind = "json" =>
           /\ ui[i].value.t = "obj"
           /\ IsScore(ui[i].value.v)
           /\ \A key \in {SECTIONS_DETECTED, MISSING_SECTIONS, WELL_WRITTEN_SECTIONS,
                          SUGGESTIONS} : InRange(ui[i].value.v, key, {"arr"})

\* C10: a stage sends one request and never repeats it: a run that started
\* has sent one request per stage reached, three when it is done; a failed
\* request's error text is returned in-band and is what the next stage is
\* given.
C10_OneRequestPerStage ==
    /\ Len(calls) = (CASE pc = "improve" -> 1
                       [] pc = "advise" -> 2
                       [] pc = "display" \/ Ran -> 3
                       [] OTHER -> 0)
    /\ \A i \in DOMAIN calls :
         ~calls[i].ok =>
           /\ MatchAt(calls[i].ret, Len(ErrorHead(calls[i].stage)) + 1, calls[i].text)
           /\ i < Len(calls) =>
                \E k \in DOMAIN calls[i + 1].prompt.args :
                    calls[i + 1].prompt.args[k] = calls[i].ret

\* a run in which the first two requests failed ended with three requests
C10_Witness ==
    /\ Ran /\ Len(calls) = 3
    /\ ~calls[1].ok /\ ~calls[2].ok /\ calls[3].ok

=============================================================================
